---- MODULE Spec2Model ----
(***************************************************************************)
(* Model of qualifier.py: valid_input, extract_tile, recompose_image and   *)
(* rearrange_tiles.  Images are modelled as a size and a pixel map; the    *)
(* PIL operations the code calls (open, crop, new, paste, save) are        *)
(* modelled by what they do to sizes and pixels.                           *)
(***************************************************************************)
EXTENDS Integers, Sequences, FiniteSets, TLC

\* ------------------------------------------------------------------ bounds
\* Largest image width and height, in pixels; tile sides range from 0 to these.
MaxW == 4
MaxH == 4
\* Longest ordering handed to rearrange_tiles; its tile indices range over
\* 0..MaxLen, so one index is out of range even for the largest grid.
MaxLen == 4
\* Orderings with repeated indices handed to rearrange_tiles have at most
\* this length (valid_input alone is explored on every sequence up to MaxOrd).
MaxDup == 2
\* Longest ordering (and largest index) on which valid_input alone is explored.
MaxOrd == 3

VARIABLES
    files,          \* the file system: path -> image stored there
    pc,             \* position inside rearrange_tiles / the validator's caller
    image_path,     \* argument of rearrange_tiles
    tile_size,      \* argument <<tile_width, tile_height>>
    ordering,       \* argument: sequence of tile indices
    out_path,       \* argument of rearrange_tiles
    handle,         \* the context-managed source image: unopened/open/closed
    image,          \* the opened source image
    image_size,     \* image.size
    valid,          \* outcome of valid_input: True / False / ZeroDivisionError
    x_tiles_count,  \* tiles per row
    tiles,          \* the list of cropped tiles
    output_image,   \* result of recompose_image
    err,            \* exception leaving rearrange_tiles, or "none"
    boxes,          \* crop rectangles handed to im.crop, in call order
    pastes,         \* rectangles written by image.paste, in call order
    before,         \* the file system when rearrange_tiles was entered
    prev            \* the previous successful call, if any

vars == <<files, pc, image_path, tile_size, ordering, out_path, handle, image,
          image_size, valid, x_tiles_count, tiles, output_image, err, boxes,
          pastes, before, prev>>

\* ------------------------------------------------------------------ values
Paths == {"a.png", "b.png"}

\* Pixel value of Image.new: a zero-initialised pixel.
Blank == 0

\* Placeholder for a Python name not yet bound to an image.
None == [size |-> <<0, 0>>, px |-> <<>>]

Coords(w, h) == (0 .. w - 1) \X (0 .. h - 1)

Range(s) == {s[i] : i \in DOMAIN s}

SeqsUpTo(S, n) == UNION {[1 .. k -> S] : k \in 0 .. n}

\* Source images: every pixel distinct ("ramp"), or a two-colour pattern.
Patterns == {"ramp", "checker"}

SourceImage(w, h, pat) ==
    [size |-> <<w, h>>,
     px   |-> [p \in Coords(w, h) |->
                  IF pat = "ramp" THEN 1 + p[2] * w + p[1]
                  ELSE 1 + ((p[1] + p[2]) % 2)]]

\* ------------------------------------------------------- Python arithmetic
\* int(a / b) for a >= 0, b > 0: true division then truncation toward zero.
\* The quotients here are far below 2^53, where the float result truncates to
\* the integer quotient.
IntTrueDiv(a, b) == a \div b

\* (image_width / tile_width) * (image_height / tile_height) == n, for
\* non-zero divisors.  When both divisions are exact the float product is the
\* integer tile count; otherwise valid_input is already False by its first two
\* checks, whatever this comparison gives.
TileCountEquals(iw, tw, ih, th, n) == iw * ih = n * tw * th

\* ------------------------------------------------------------- valid_input
valid_input_strict_len(isz, tsz, ord) ==
    LET image_width == isz[1]
        image_height == isz[2]
        tile_width == tsz[1]
        tile_height == tsz[2]
    IN  IF tile_width = 0 \/ tile_height = 0
        THEN "ZeroDivisionError"
        ELSE IF /\ image_width % tile_width = 0
                /\ image_height % tile_height = 0
                /\ TileCountEquals(image_width, tile_width,
                                   image_height, tile_height, Len(ord) + 1)
                /\ Len(ord) = Cardinality(Range(ord))
             THEN "True" ELSE "False"

\* all([...]) builds the whole list first, so both modulo operations run
\* before anything is returned: a zero tile side raises ZeroDivisionError.
valid_input(isz, tsz, ord) ==
    LET image_width == isz[1]
        image_height == isz[2]
        tile_width == tsz[1]
        tile_height == tsz[2]
    IN  IF tile_width = 0 \/ tile_height = 0
        THEN "ZeroDivisionError"
        ELSE IF /\ image_width % tile_width = 0
                /\ image_height % tile_height = 0
                /\ TileCountEquals(image_width, tile_width,
                                   image_height, tile_height, Len(ord))
                /\ Len(ord) = Cardinality(Range(ord))
             THEN "True" ELSE "False"

\* ------------------------------------------------------------ extract_tile
\* im.crop(box): a new image of the box's size; pixels of the box that lie
\* outside im are zero-filled.
crop(im, box) ==
    LET w == box[3] - box[1]
        h == box[4] - box[2]
    IN  [size |-> <<w, h>>,
         px   |-> [p \in Coords(w, h) |->
                     LET q == <<box[1] + p[1], box[2] + p[2]>>
                     IN  IF q \in DOMAIN im.px THEN im.px[q] ELSE Blank]]

TileBox_swapped(tsz, tile_index, tiles_by_row) ==
    LET row_index == tile_index % tiles_by_row
        col_index == IntTrueDiv(tile_index, tiles_by_row)
        left == col_index * tsz[1]
        top == row_index * tsz[2]
    IN  <<left, top, left + tsz[1], top + tsz[2]>>

\* The (left, top, right, bottom) rectangle extract_tile crops.
TileBox(tsz, tile_index, tiles_by_row) ==
    LET row_index == IntTrueDiv(tile_index, tiles_by_row)
        col_index == tile_index % tiles_by_row
        left == col_index * tsz[1]
        top == row_index * tsz[2]
        right == left + tsz[1]
        bottom == top + tsz[2]
    IN  <<left, top, right, bottom>>

extract_tile(im, tsz, tile_index, tiles_by_row) ==
    crop(im, TileBox(tsz, tile_index, tiles_by_row))

\* --------------------------------------------------------- recompose_image
\* Image.new(mode, size)
NewImage(size) ==
    [size |-> size, px |-> [p \in Coords(size[1], size[2]) |-> Blank]]

\* image.paste(tile, (x, y)): overwrite the tile's rectangle, clipped to image.
paste(im, tile, pos) ==
    [im EXCEPT !.px =
        [p \in DOMAIN im.px |->
            LET q == <<p[1] - pos[1], p[2] - pos[2]>>
            IN  IF q \in DOMAIN tile.px THEN tile.px[q] ELSE im.px[p]]]

PastePos_by_index(k, tile, tiles_by_row) ==
    <<k * tile.size[1], 0>>

\* Where the tile at 0-based sequence position k is pasted.
PastePos(k, tile, tiles_by_row) ==
    LET row_index == IntTrueDiv(k, tiles_by_row)
        col_index == k % tiles_by_row
        tile_width == tile.size[1]
        tile_height == tile.size[2]
    IN  <<col_index * tile_width, row_index * tile_height>>

\* The rectangle paste writes for the tile at position k.
PasteRect(k, tile, tiles_by_row) ==
    LET pos == PastePos(k, tile, tiles_by_row)
    IN  <<pos[1], pos[2], pos[1] + tile.size[1], pos[2] + tile.size[2]>>

RECURSIVE PasteAll(_, _, _, _)
\* The enumerate loop: paste tiles[1..n] in order.
PasteAll(im, tls, tiles_by_row, n) ==
    IF n = 0 THEN im
    ELSE paste(PasteAll(im, tls, tiles_by_row, n - 1), tls[n],
               PastePos(n - 1, tls[n], tiles_by_row))

recompose_image(src_image, tls, tiles_by_row) ==
    PasteAll(NewImage(src_image.size), tls, tiles_by_row, Len(tls))

\* --------------------------------------------------------- rearrange_tiles
InvalidConfigurationMessage ==
    "ValueError: The tile size or ordering are not valid for the given image"

Locals == <<handle, image, image_size, valid, x_tiles_count, tiles,
            output_image, err, boxes, pastes>>

Args == <<image_path, tile_size, ordering, out_path>>

\* Entry of rearrange_tiles up to reading image.size; image_path names a
\* readable image, which Image.open yields as a context-managed object.
rearrange_tiles(ip, tsz, ord, op) ==
    /\ pc = "idle"
    /\ ip \in DOMAIN files
    /\ image_path' = ip
    /\ tile_size' = tsz
    /\ ordering' = ord
    /\ out_path' = op
    /\ before' = files
    /\ handle' = "open"
    /\ image' = files[ip]
    /\ image_size' = files[ip].size
    /\ err' = "none"
    /\ pc' = "validate"
    /\ valid' = "none"
    /\ x_tiles_count' = 0
    /\ tiles' = <<>>
    /\ output_image' = None
    /\ boxes' = <<>>
    /\ pastes' = <<>>
    /\ UNCHANGED <<files, prev>>

Validate_after_write ==
    /\ pc = "validate"
    /\ valid' = valid_input(image_size, tile_size, ordering)
    /\ IF valid' = "True"
       THEN /\ x_tiles_count' = IntTrueDiv(image_size[1], tile_size[1])
            /\ pc' = "extract"
            /\ UNCHANGED <<err, files>>
       ELSE /\ err' = IF valid' = "False" THEN InvalidConfigurationMessage
                      ELSE "ZeroDivisionError"
            /\ files' = [q \in DOMAIN files \cup {out_path} |->
                            IF q = out_path THEN NewImage(image_size)
                            ELSE files[q]]
            /\ pc' = "exit"
            /\ UNCHANGED x_tiles_count
    /\ UNCHANGED <<Args, handle, image, image_size, tiles, output_image,
                   boxes, pastes, before, prev>>

\* if not valid_input(...): raise ValueError(...); x_tiles_count = int(...)
\* An exception raised by valid_input itself propagates the same way.
Validate ==
    /\ pc = "validate"
    /\ valid' = valid_input(image_size, tile_size, ordering)
    /\ IF valid' = "True"
       THEN /\ x_tiles_count' = IntTrueDiv(image_size[1], tile_size[1])
            /\ pc' = "extract"
            /\ UNCHANGED err
       ELSE /\ err' = IF valid' = "False" THEN InvalidConfigurationMessage
                      ELSE "ZeroDivisionError"
            /\ pc' = "exit"
            /\ UNCHANGED x_tiles_count
    /\ UNCHANGED <<Args, files, handle, image, image_size, tiles, output_image,
                   boxes, pastes, before, prev>>

\* tiles = [extract_tile(image, tile_size, tile_index, x_tiles_count)
\*          for tile_index in ordering]
Extract ==
    /\ pc = "extract"
    /\ tiles' = [k \in 1 .. Len(ordering) |->
                    extract_tile(image, tile_size, ordering[k], x_tiles_count)]
    /\ boxes' = [k \in 1 .. Len(ordering) |->
                    TileBox(tile_size, ordering[k], x_tiles_count)]
    /\ pc' = "recompose"
    /\ UNCHANGED <<Args, files, handle, image, image_size, valid,
                   x_tiles_count, output_image, err, pastes, before, prev>>

\* The pixel data is read lazily by the first crop; a read failure propagates.
LoadError ==
    /\ pc = "extract"
    /\ err' = "OSError"
    /\ pc' = "exit"
    /\ UNCHANGED <<Args, files, handle, image, image_size, valid,
                   x_tiles_count, tiles, output_image, boxes, pastes, before,
                   prev>>

\* output_image = recompose_image(image, tiles, x_tiles_count)
Recompose ==
    /\ pc = "recompose"
    /\ output_image' = recompose_image(image, tiles, x_tiles_count)
    /\ pastes' = [k \in 1 .. Len(tiles) |->
                    PasteRect(k - 1, tiles[k], x_tiles_count)]
    /\ pc' = "save"
    /\ UNCHANGED <<Args, files, handle, image, image_size, valid,
                   x_tiles_count, tiles, err, boxes, before, prev>>

\* output_image.save(out_path)
Save ==
    /\ pc = "save"
    /\ files' = [q \in DOMAIN files \cup {out_path} |->
                    IF q = out_path THEN output_image ELSE files[q]]
    /\ pc' = "exit"
    /\ UNCHANGED <<Args, handle, image, image_size, valid, x_tiles_count,
                   tiles, output_image, err, boxes, pastes, before, prev>>

\* save fails (unwritable out_path): the error propagates, nothing is stored.
SaveError ==
    /\ pc = "save"
    /\ err' = "OSError"
    /\ pc' = "exit"
    /\ UNCHANGED <<Args, files, handle, image, image_size, valid,
                   x_tiles_count, tiles, output_image, boxes, pastes, before,
                   prev>>

Release_on_success(h, e) == IF e = "none" THEN "closed" ELSE h

\* What leaving the with block does to the image, whatever the exit path.
Release(h, e) == "closed"

\* End of the with block: __exit__ runs on normal exit and on an exception.
Exit ==
    /\ pc = "exit"
    /\ handle' = Release(handle, err)
    /\ pc' = "done"
    /\ UNCHANGED <<Args, files, image, image_size, valid, x_tiles_count,
                   tiles, output_image, err, boxes, pastes, before, prev>>

\* ------------------------------------------------------------------ inputs
Sizes == (1 .. MaxW) \X (1 .. MaxH)
TileSizes == (0 .. MaxW) \X (0 .. MaxH)

IsDupFree(s) == Cardinality(Range(s)) = Len(s)

\* Orderings handed to rearrange_tiles: every duplicate-free sequence (the
\* permutations, and the ones naming an index that is out of range or of the
\* wrong length), and the short sequences with repeats.
Orderings ==
    DOMAIN [s \in {t \in SeqsUpTo(0 .. MaxLen, MaxLen) :
                      IsDupFree(t) \/ Len(t) <= MaxDup} |-> TRUE]

\* Orderings on which valid_input alone is explored: every sequence.
AllOrderings == DOMAIN [s \in SeqsUpTo(0 .. MaxOrd, MaxOrd) |-> TRUE]

Idle ==
    /\ pc = "idle"
    /\ image_path = "" /\ tile_size = <<0, 0>> /\ ordering = <<>>
    /\ out_path = ""
    /\ handle = "unopened" /\ image = None /\ image_size = <<0, 0>>
    /\ valid = "none" /\ x_tiles_count = 0 /\ tiles = <<>>
    /\ output_image = None /\ err = "none" /\ boxes = <<>> /\ pastes = <<>>
    /\ prev = <<>>

Init ==
    /\ \E sz \in Sizes :
          files = [q \in {"a.png"} |-> SourceImage(sz[1], sz[2], "ramp")]
    /\ before = files
    /\ Idle

Call ==
    /\ pc = "idle"
    /\ \E ip \in Paths, tsz \in TileSizes, ord \in Orderings, op \in Paths :
          rearrange_tiles(ip, tsz, ord, op)

Next ==
    \/ Call
    \/ Validate
    \/ Extract
    \/ LoadError
    \/ Recompose
    \/ Save
    \/ SaveError
    \/ Exit

\* One invocation of rearrange_tiles on arbitrary arguments.
Spec == Init /\ [][Next]_vars

\* ---------------------------------------------------- valid_input on its own
InitV ==
    /\ files = <<>>
    /\ before = files
    /\ pc = "valid_input"
    /\ image_path = "" /\ out_path = ""
    /\ image_size \in Sizes
    /\ tile_size \in TileSizes
    /\ ordering \in AllOrderings
    /\ handle = "unopened" /\ image = None
    /\ valid = "none" /\ x_tiles_count = 0 /\ tiles = <<>>
    /\ output_image = None /\ err = "none" /\ boxes = <<>> /\ pastes = <<>>
    /\ prev = <<>>

\* A direct call valid_input(image_size, tile_size, ordering).
ValidInputCall ==
    /\ pc = "valid_input"
    /\ valid' = valid_input(image_size, tile_size, ordering)
    /\ pc' = "returned"
    /\ UNCHANGED <<Args, files, handle, image, image_size, x_tiles_count,
                   tiles, output_image, err, boxes, pastes, before, prev>>

NextV == ValidInputCall

\* valid_input applied to every input of the bounded sets.
SpecV == InitV /\ [][NextV]_vars

\* ------------------------------------------------------------- round trip
Identity(n) == [i \in 1 .. n |-> i - 1]

IsPermutation(s) == Range(s) = 0 .. Len(s) - 1

PermOrderings ==
    DOMAIN [s \in {t \in SeqsUpTo(0 .. MaxLen - 1, MaxLen) :
                      IsPermutation(t)} |-> TRUE]

\* The inverse of a permutation p of 0..n-1, as a sequence.
Inverse(p) == [i \in 1 .. Len(p) |-> (CHOOSE j \in 1 .. Len(p) : p[j] = i - 1) - 1]

InitRT ==
    /\ \E sz \in Sizes, pat \in Patterns :
          files = [q \in {"a.png"} |-> SourceImage(sz[1], sz[2], pat)]
    /\ before = files
    /\ Idle

\* First call of a round trip: a permutation p as ordering.
CallPerm ==
    /\ pc = "idle"
    /\ prev = <<>>
    /\ \E ip \in Paths, tsz \in TileSizes, p \in PermOrderings, op \in Paths :
          rearrange_tiles(ip, tsz, p, op)

\* The first call has returned normally; the caller notes what it did.
Again ==
    /\ pc = "done"
    /\ err = "none"
    /\ prev = <<>>
    /\ prev' = <<[image |-> image, tile_size |-> tile_size,
                  ordering |-> ordering, output_image |-> output_image,
                  out_path |-> out_path]>>
    /\ pc' = "idle"
    /\ UNCHANGED <<Args, files, Locals, before>>

\* Second call of a round trip: the first call's output, the same tile size,
\* the inverse permutation.
CallInverse ==
    /\ pc = "idle"
    /\ prev # <<>>
    /\ \E op \in Paths :
          rearrange_tiles(prev[1].out_path, prev[1].tile_size,
                          Inverse(prev[1].ordering), op)

NextRT ==
    \/ CallPerm
    \/ CallInverse
    \/ Again
    \/ Validate
    \/ Extract
    \/ LoadError
    \/ Recompose
    \/ Save
    \/ SaveError
    \/ Exit

\* rearrange_tiles with a permutation, then with its inverse on the result.
SpecRT == InitRT /\ [][NextRT]_vars

\* ------------------------------------------------------------------ claims
\* d divides n, for n >= 1 (false for d = 0).
Divides(d, n) == \E k \in 1 .. n : k * d = n

\* Tile count of the grid, for a tile size that divides the image size.
TileCount(isz, tsz) == (isz[1] \div tsz[1]) * (isz[2] \div tsz[2])

TileDivides(isz, tsz) == Divides(tsz[1], isz[1]) /\ Divides(tsz[2], isz[2])

Returned == pc = "returned"

\* C1: whenever valid_input accepts, ordering is a permutation of
\* 0 .. tile_count - 1 (every index in range, each exactly once).
C1_AcceptedIsPermutation ==
    (Returned /\ valid = "True") =>
        /\ Len(ordering) = TileCount(image_size, tile_size)
        /\ IsPermutation(ordering)

\* C2: with a zero tile width or tile height valid_input returns False; it
\* raises nothing.
C2_ZeroTileReturnsFalse ==
    (Returned /\ (tile_size[1] = 0 \/ tile_size[2] = 0)) => valid = "False"

\* C3: positive sizes, a tile size dividing the image size on both axes and an
\* ordering that is a permutation of 0 .. tile_count - 1 make valid_input
\* return True.
C3_PermutationAccepted ==
    ( /\ Returned
      /\ tile_size[1] > 0 /\ tile_size[2] > 0
      /\ TileDivides(image_size, tile_size)
      /\ Len(ordering) = TileCount(image_size, tile_size)
      /\ IsPermutation(ordering) ) => valid = "True"

C3_Witness ==
    /\ Returned
    /\ image_size = <<3, 2>> /\ tile_size = <<1, 2>>
    /\ ordering = <<2, 0, 1>>
    /\ valid = "True"

\* C4: valid_input returns False whenever one of its checks fails: the tile
\* width or height does not divide the image's, the ordering's length is not
\* the tile count, or the ordering repeats a value.
C4_FailedCheckReturnsFalse ==
    ( /\ Returned
      /\ \/ ~TileDivides(image_size, tile_size)
         \/ Len(ordering) # TileCount(image_size, tile_size)
         \/ ~IsDupFree(ordering) ) => valid = "False"

\* C5: when valid_input returns False, rearrange_tiles raises the ValueError
\* with the invalid-configuration message before any crop, paste or save: no
\* tile exists, no output image exists and the file system is as on entry.
C5_RejectedRaisesBeforeAnyWork ==
    valid = "False" =>
        /\ pc \in {"exit", "done"}
        /\ err = "ValueError: The tile size or ordering are not valid for the given image"
        /\ files = before
        /\ tiles = <<>> /\ boxes = <<>> /\ pastes = <<>>
        /\ output_image = None

C5_Witness ==
    /\ pc = "done"
    /\ valid = "False"
    /\ image_size = <<4, 4>> /\ tile_size = <<2, 2>> /\ ordering = <<0, 1, 2>>
    /\ out_path = "b.png" /\ "b.png" \notin DOMAIN files
    /\ err = InvalidConfigurationMessage

\* The call has returned normally.
Completed == pc = "done" /\ err = "none"

\* C6: after a normal return, for every position i the output tile at grid
\* position (i div tiles_per_row, i mod tiles_per_row) is, pixel for pixel, the
\* source tile at (ordering[i] div tiles_per_row, ordering[i] mod tiles_per_row).
C6_OutputTileIsSourceTile ==
    Completed =>
        LET tw == tile_size[1]
            th == tile_size[2]
            tpr == image_size[1] \div tw
        IN  \A i \in 1 .. Len(ordering), dx \in 0 .. tw - 1, dy \in 0 .. th - 1 :
                LET dst == <<((i - 1) % tpr) * tw + dx,
                             ((i - 1) \div tpr) * th + dy>>
                    src == <<(ordering[i] % tpr) * tw + dx,
                             (ordering[i] \div tpr) * th + dy>>
                IN  /\ src \in DOMAIN image.px
                    /\ dst \in DOMAIN output_image.px
                    /\ output_image.px[dst] = image.px[src]

\* C7: rearranging with a permutation p and then rearranging the result with
\* the inverse of p (same tile size) gives back the original image: same size,
\* same pixels.
C7_RoundTrip ==
    (Completed /\ prev # <<>>) =>
        /\ output_image = prev[1].image
        /\ files[out_path] = prev[1].image

C7_Witness ==
    /\ Completed /\ prev # <<>>
    /\ prev[1].ordering = <<2, 0, 3, 1>>
    /\ ordering = <<1, 3, 0, 2>>
    /\ tile_size = <<2, 2>> /\ image_size = <<4, 4>>
    /\ prev[1].output_image # prev[1].image
    /\ output_image = prev[1].image

\* C8: with ordering = <<0, 1, ..., tile_count - 1>> the saved output equals
\* the source image: same size, every pixel unchanged.
C8_IdentityOrdering ==
    (Completed /\ ordering = Identity(Len(ordering))) =>
        /\ output_image = image
        /\ files[out_path] = image

C8_Witness ==
    /\ Completed
    /\ image_size = <<4, 4>> /\ tile_size = <<2, 2>>
    /\ ordering = <<0, 1, 2, 3>>
    /\ files[out_path] = image

\* C9: the source image is released on every exit path and is open whenever
\* extraction, recomposition or save is about to run: once the call has ended
\* (normally or by any exception) the handle is closed.
C9_HandleReleased ==
    /\ pc = "done" => handle = "closed"
    /\ pc \in {"validate", "extract", "recompose", "save", "exit"} =>
          handle = "open"

C9_Witness ==
    /\ pc = "done" /\ handle = "closed"
    /\ err = "OSError" /\ tiles # <<>>

\* C10: for every accepted input each crop rectangle lies inside the source
\* image, and the paste rectangles cover the output exactly, every output
\* pixel being written by exactly one tile.
C10_CropsInsidePastesCover ==
    /\ \A k \in DOMAIN boxes :
          /\ 0 <= boxes[k][1] /\ boxes[k][1] < boxes[k][3]
          /\ boxes[k][3] <= image_size[1]
          /\ 0 <= boxes[k][2] /\ boxes[k][2] < boxes[k][4]
          /\ boxes[k][4] <= image_size[2]
    /\ pastes # <<>> =>
          \A p \in Coords(image_size[1], image_size[2]) :
              Cardinality({k \in DOMAIN pastes :
                              /\ pastes[k][1] <= p[1] /\ p[1] < pastes[k][3]
                              /\ pastes[k][2] <= p[2] /\ p[2] < pastes[k][4]})
                  = 1

====
